---- MODULE Spec2Model ----
(***************************************************************************)
(* A model of the example notebooks of the repository: the OpenMM energy   *)
(* function for side-chain repacking (match_atoms, OpenMMEnergyFunc), the  *)
(* objective of the membrane docking fit, the SDSL site-pair screen, and   *)
(* the top-to-bottom execution of the cells of the four notebooks.         *)
(***************************************************************************)
EXTENDS Integers, Sequences, FiniteSets, TLC

VARIABLES
    m_ref,      \* match_atoms: reference.positions, one point per atom
    m_coords,   \* match_atoms: subject.coords, one row of points per rotamer
    m_pc,       \* match_atoms: "call" before the call, "returned" after it
    m_ret,      \* match_atoms: the value returned
    m_exc,      \* match_atoms: the exception that left it, if any
    fault,      \* the library call that raised in the operation shown, if any
    c_pc,       \* OpenMMEnergyFunc.__init__: the statement reached
    c_arg,      \* __init__: the positions of the protein passed in
    c_tmp,      \* __init__: the temporary directory and the file in it
    c_pdb,      \* __init__: pdb, the PDBFile read (its topology)
    c_loaded,   \* __init__: the generators the force field was loaded with
    c_ff,       \* __init__: ff._forces
    c_omm,      \* __init__: omm_system
    c_out,      \* __init__: how the constructor call ended
    e_protein,      \* OpenMMEnergyFunc: self.protein
    e_simulation,   \* OpenMMEnergyFunc: self.simulation
    e_created,      \* the number of Simulation objects created so far
    e_sys,          \* the system being scored: its attribute dictionary
    e_last,         \* the outcome of the call of the energy function just made
    e_match_runs,   \* how many times match_atoms ran on the system being scored
    o_centroids,    \* docking: spin_centroids, one row per labelled site
    o_ori,          \* docking: spin_at_ori
    o_depths,       \* docking: depths, one per labelled site
    o_par,          \* docking: the parameter vector objective is called with
    o_out,          \* docking: the outcome of the call of objective
    o_pc,           \* docking: the statement of the notebook to run next
    o_fit,          \* docking: fit.x, the parameters minimize returned
    o_sites,        \* docking: sites, the residue numbers of the depth data
    o_protein,      \* docking: CPLA_C2, the backbone atoms of each residue
    o_labels,       \* docking: label_list
    s_pc,           \* site-pair screen: the cell to run next
    s_t4l,          \* screen: the structure fetched, residue by residue
    s_SLs,          \* screen: the dictionary SLs, in insertion order
    s_pairs,        \* screen: the list pairs
    s_scores,       \* screen: the list scores
    s_best,         \* screen: (site1, site2)
    s_out,          \* screen: how the run of the notebook ended
    n_book,         \* notebooks: the notebook being run
    n_pc,           \* notebooks: the index of the statement to run next
    n_defined,      \* notebooks: the names bound so far
    n_steps,        \* notebooks: the driver steps taken so far
    n_saves,        \* notebooks: the argument lists of the save calls made
    n_out           \* notebooks: how the run of the notebook ended

matchVars == <<m_ref, m_coords, m_pc, m_ret, m_exc>>
ctorVars == <<c_pc, c_arg, c_tmp, c_pdb, c_loaded, c_ff, c_omm, c_out>>
efuncVars == <<e_protein, e_simulation, e_created, e_sys, e_last, e_match_runs>>
dockVars == <<o_pc, o_fit, o_sites, o_protein, o_labels>>
objVars == <<o_centroids, o_ori, o_depths, o_par, o_out, dockVars>>
screenVars == <<s_pc, s_t4l, s_SLs, s_pairs, s_scores, s_best, s_out>>
nbVars == <<n_book, n_pc, n_defined, n_steps, n_saves, n_out>>
restVars == <<objVars, screenVars, nbVars>>
vars == <<matchVars, ctorVars, efuncVars, fault, restVars>>

(***************************************************************************)
(* Bounds of the model.                                                    *)
(***************************************************************************)
MaxCoord == 1       \* points lie at x = 0..MaxCoord
MaxAtoms == 2       \* atoms of a selection or of a rotamer: 1..MaxAtoms
MaxRot == 2         \* rotamers of an ensemble: 0..MaxRot
MaxGen == 3         \* generators of a loaded force field: 0..MaxGen
MaxRes == 3         \* residues of the structure screened: 0..MaxRes

(***************************************************************************)
(* Values.  A position is a 3-vector; the inputs are drawn from the points *)
(* of the x axis.  None is Python's None and Array(s) an index array; Inf  *)
(* stands for numpy's inf (every score is at least 0).                     *)
(***************************************************************************)
None == [kind |-> "None", ix |-> <<>>]
Array(s) == [kind |-> "ndarray", ix |-> s]
Inf == -1
NoExc == "none"
NoTempDir == [state |-> "none", positions |-> <<>>]

\* What a call leaves behind: the value returned, or the exception raised.
Returned(Es) == [kind |-> "returned", Es |-> Es, exc |-> NoExc]
Raised(exc) == [kind |-> "raised", Es |-> <<>>, exc |-> exc]
NoCall == [kind |-> "none", Es |-> <<>>, exc |-> NoExc]

Points == {<<x, 0, 0>> : x \in 0..MaxCoord}

SeqsOfLen(S, n) == [1..n -> S]
SeqsUpTo(S, n) == UNION {SeqsOfLen(S, k) : k \in 0..n}
NonEmptySeqsUpTo(S, n) == UNION {SeqsOfLen(S, k) : k \in 1..n}

RECURSIVE SumTo(_, _)
SumTo(f, n) == IF n = 0 THEN 0 ELSE f[n] + SumTo(f, n - 1)

MinOf(a, b) == IF a <= b THEN a ELSE b

\* The rotamers of m atoms the inputs are drawn from: the atoms spread
\* along the x axis from two starting points, or all at the origin.
RotamerLibrary(m) ==
    {[a \in 1..m |-> <<(a + k) % (MaxCoord + 1), 0, 0>>] : k \in 0..1}
        \cup {[a \in 1..m |-> <<0, 0, 0>>]}

\* The ensembles a system can hold: every rotamer has the same atoms.
Ensembles == UNION {SeqsUpTo(RotamerLibrary(m), MaxRot) : m \in 1..MaxAtoms}

(***************************************************************************)
(* match_atoms                                                             *)
(***************************************************************************)
\* diff = reference.positions[:,None] - sub[None]; diff*diff; sum(axis=-1)
SquaredDistances(reference, sub) ==
    [i \in 1..Len(reference) |->
        [j \in 1..Len(sub) |->
            SumTo([c \in 1..3 |-> (reference[i][c] - sub[j][c]) * (reference[i][c] - sub[j][c])], 3)]]

\* The pairings scipy's linear_sum_assignment ranges over for an n x m cost
\* matrix: min(n, m) pairs, the row indices ascending, no column twice.
Pairings(n, m) ==
    LET k == MinOf(n, m)
    IN  {p \in [idx1 : SeqsOfLen(1..n, k), idx2 : SeqsOfLen(1..m, k)] :
            /\ \A s, t \in 1..k : s < t => p.idx1[s] < p.idx1[t]
            /\ \A s, t \in 1..k : s # t => p.idx2[s] # p.idx2[t]}

\* score = np.sum([diff[arg] for arg in zip(idx1, idx2)])
PairingScore(diff, p) ==
    SumTo([t \in 1..Len(p.idx1) |-> diff[p.idx1[t]][p.idx2[t]]], Len(p.idx1))

\* A pairing that ignores the one-to-one constraint: every row takes its
\* nearest column.
NearestColumns(diff) ==
    LET n == Len(diff)
        m == Len(diff[1])
    IN  {p \in [idx1 : {[t \in 1..n |-> t]}, idx2 : SeqsOfLen(1..m, n)] :
            \A t \in 1..n : \A j \in 1..m : diff[t][p.idx2[t]] <= diff[t][j]}

\* idx1, idx2 = linear_sum_assignment(diff): a pairing of least total cost.
\* Which of several optimal pairings scipy returns is not fixed by its
\* contract, so the operator is the set of all of them.
linear_sum_assignment(diff) ==
    LET P == Pairings(Len(diff), Len(diff[1]))
    IN  {p \in P : \A q \in P : PairingScore(diff, p) <= PairingScore(diff, q)}

\* score < dmin_score, with dmin_score starting at np.inf
Better(score, dmin_score) == dmin_score = Inf \/ score < dmin_score

\* The loop of match_atoms with the comparison reversed.
RECURSIVE MatchAtomsLoopWorst(_, _, _, _, _)
MatchAtomsLoopWorst(reference, coords, i, dmin_score, dmaps) ==
    IF i > Len(coords) THEN dmaps
    ELSE LET diff == SquaredDistances(reference, coords[i])
             best == linear_sum_assignment(diff)
             score == PairingScore(diff, CHOOSE p \in best : TRUE)
         IN  IF dmin_score = Inf \/ score > dmin_score
             THEN MatchAtomsLoopWorst(reference, coords, i + 1, score, {Array(p.idx2) : p \in best})
             ELSE MatchAtomsLoopWorst(reference, coords, i + 1, dmin_score, dmaps)

\* for i, sub in enumerate(subject.coords): ... from rotamer i on, with the
\* best score so far and the values dmap can hold.
RECURSIVE MatchAtomsLoop(_, _, _, _, _)
MatchAtomsLoop(reference, coords, i, dmin_score, dmaps) ==
    IF i > Len(coords) THEN dmaps
    ELSE LET diff == SquaredDistances(reference, coords[i])
             best == linear_sum_assignment(diff)
             score == PairingScore(diff, CHOOSE p \in best : TRUE)
         IN  IF Better(score, dmin_score)
             THEN MatchAtomsLoop(reference, coords, i + 1, score, {Array(p.idx2) : p \in best})
             ELSE MatchAtomsLoop(reference, coords, i + 1, dmin_score, dmaps)

\* match_atoms(reference, subject): the values it can return.
match_atoms(reference, coords) == MatchAtomsLoop(reference, coords, 1, Inf, {None})

(***************************************************************************)
(* The specification of match_atoms as a function of its inputs.           *)
(***************************************************************************)
MatchIdle ==
    /\ m_ref = <<>>
    /\ m_coords = <<>>
    /\ m_pc = "idle"
    /\ m_ret = None
    /\ m_exc = NoExc

CtorIdle ==
    /\ c_pc = "idle"
    /\ c_arg = <<>>
    /\ c_tmp = NoTempDir
    /\ c_pdb = None
    /\ c_loaded = <<>>
    /\ c_ff = <<>>
    /\ c_omm = None
    /\ c_out = NoCall

EfuncIdle ==
    /\ e_protein = None
    /\ e_simulation = None
    /\ e_created = 0
    /\ e_sys = <<>>
    /\ e_last = NoCall
    /\ e_match_runs = 0

DockIdle ==
    /\ o_pc = "idle"
    /\ o_fit = <<>>
    /\ o_sites = <<>>
    /\ o_protein = <<>>
    /\ o_labels = <<>>

ObjIdle ==
    /\ DockIdle
    /\ o_centroids = <<>>
    /\ o_ori = <<>>
    /\ o_depths = <<>>
    /\ o_par = <<>>
    /\ o_out = NoCall

ScreenIdle ==
    /\ s_pc = "idle"
    /\ s_t4l = <<>>
    /\ s_SLs = <<>>
    /\ s_pairs = <<>>
    /\ s_scores = <<>>
    /\ s_best = <<>>
    /\ s_out = NoCall

NbIdle ==
    /\ n_book = "none"
    /\ n_pc = 0
    /\ n_defined = {}
    /\ n_steps = <<>>
    /\ n_saves = <<>>
    /\ n_out = NoCall

RestIdle == ObjIdle /\ ScreenIdle /\ NbIdle

MatchInit ==
    /\ EfuncIdle
    /\ CtorIdle
    /\ RestIdle
    /\ fault = NoExc
    /\ m_ref \in NonEmptySeqsUpTo(Points, MaxAtoms)
    /\ m_coords \in Ensembles
    /\ m_pc = "call"
    /\ m_ret = None
    /\ m_exc = NoExc

\* match_atoms(reference, subject) runs to its return statement.
MatchAtomsCall ==
    /\ m_pc = "call"
    /\ m_pc' = "returned"
    /\ m_ret' \in match_atoms(m_ref, m_coords)
    /\ UNCHANGED <<m_ref, m_coords, m_exc, fault, ctorVars, efuncVars, restVars>>

\* linear_sum_assignment raises on some rotamer: match_atoms is left by
\* the exception, at whichever iteration it is.
MatchAtomsRaise ==
    /\ m_pc = "call"
    /\ m_coords # <<>>
    /\ m_pc' = "raised"
    /\ m_exc' = "linear_sum_assignment"
    /\ fault' = "linear_sum_assignment"
    /\ UNCHANGED <<m_ref, m_coords, m_ret, ctorVars, efuncVars, restVars>>

MatchNext == MatchAtomsCall \/ MatchAtomsRaise

SpecMatch == MatchInit /\ [][MatchNext]_vars

(***************************************************************************)
(* Claims about match_atoms.                                               *)
(***************************************************************************)
\* The sum of squared distances when reference atom p.idx1[t] is paired with
\* atom p.idx2[t] of rotamer r.
CostInRotamer(r, p) == PairingScore(SquaredDistances(m_ref, m_coords[r]), p)

\* The least cost any pairing reaches in rotamer r.
LeastCost(r) ==
    LET P == Pairings(Len(m_ref), Len(m_coords[r]))
    IN  CostInRotamer(r, CHOOSE p \in P : \A q \in P : CostInRotamer(r, p) <= CostInRotamer(r, q))

\* C2: match_atoms returns a least-cost pairing of a rotamer whose least
\* cost is the smallest of all rotamers: no pairing of any rotamer costs
\* strictly less than the one returned (None when there is no rotamer).
C2_BestPairingReturned ==
    m_pc = "returned" =>
        IF m_coords = <<>> THEN m_ret = None
        ELSE \E r \in 1..Len(m_coords) :
                \E p \in Pairings(Len(m_ref), Len(m_coords[r])) :
                    /\ m_ret = Array(p.idx2)
                    /\ \A r2 \in 1..Len(m_coords) :
                        \A q \in Pairings(Len(m_ref), Len(m_coords[r2])) :
                            CostInRotamer(r, p) <= CostInRotamer(r2, q)

\* C2 witness: two rotamers were examined, the second one strictly better
\* than the first, and a pairing was returned.
C2_Witness ==
    /\ m_pc = "returned"
    /\ Len(m_coords) = 2
    /\ Len(m_ref) = 2
    /\ LeastCost(2) < LeastCost(1)
    /\ m_ret # None

\* C9: when the reference has no more atoms than a rotamer, the mapping
\* returned has one entry per reference atom (so it is as long as psel.ix),
\* entry i is the rotamer atom paired with reference atom i, and no rotamer
\* atom occurs twice.
C9_OneToOneMapping ==
    (m_pc = "returned" /\ m_coords # <<>> /\ Len(m_ref) <= Len(m_coords[1])) =>
        /\ m_ret.kind = "ndarray"
        /\ Len(m_ret.ix) = Len(m_ref)
        /\ \A i \in 1..Len(m_ret.ix) : m_ret.ix[i] \in 1..Len(m_coords[1])
        /\ \A i, j \in 1..Len(m_ret.ix) : i # j => m_ret.ix[i] # m_ret.ix[j]
        /\ \E r \in 1..Len(m_coords) :
              CostInRotamer(r, [idx1 |-> [i \in 1..Len(m_ref) |-> i], idx2 |-> m_ret.ix])
                  = LeastCost(r)

\* C9 witness: two reference atoms were matched with the two atoms of a
\* rotamer in the other order.
C9_Witness ==
    /\ m_pc = "returned"
    /\ Len(m_ref) = 2
    /\ m_coords # <<>>
    /\ m_ret = Array(<<2, 1>>)

(***************************************************************************)
(* OpenMMEnergyFunc: the force field of the constructor.                   *)
(***************************************************************************)
\* A generator of the force field: its class and its place in the list the
\* force field was loaded with.
Generator(cls, n) == [cls |-> cls, n |-> n]

\* ForceField('amber14-all.xml', 'implicit/gbn2.xml'): the generators the two
\* files register, in the order of the files.
Amber14GBN2 ==
    <<Generator("HarmonicBondGenerator", 1), Generator("HarmonicAngleGenerator", 2),
      Generator("PeriodicTorsionGenerator", 3), Generator("NonbondedGenerator", 4),
      Generator("CustomGBGenerator", 5)>>

\* isinstance(force, forcefield.NonbondedGenerator)
IsNonbondedGenerator(force) == force.cls = "NonbondedGenerator"

\* A filter that drops nothing.
KeepAllForces(forces) == forces

\* ff._forces = [force for force in ff._forces if isinstance(force, NonbondedGenerator)]
FilterForces(forces) == SelectSeq(forces, IsNonbondedGenerator)

\* The force a generator adds to the system it helps to create.
CreateForce(gen) ==
    CASE gen.cls = "NonbondedGenerator" -> "NonbondedForce"
      [] gen.cls = "CustomGBGenerator" -> "CustomGBForce"
      [] gen.cls = "HarmonicBondGenerator" -> "HarmonicBondForce"
      [] gen.cls = "HarmonicAngleGenerator" -> "HarmonicAngleForce"
      [] OTHER -> "PeriodicTorsionForce"

\* ff.createSystem(pdb.topology, ...): one force per generator of ff._forces.
createSystem(topology, forces) ==
    [topology |-> topology, forces |-> [i \in 1..Len(forces) |-> CreateForce(forces[i])]]

\* Simulation(pdb.topology, omm_system, integrator), the id-th Simulation
\* object created; its context holds no positions yet.
Simulation(id, topology, omm_system) ==
    [id |-> id, topology |-> topology, system |-> omm_system, positions |-> <<>>]

\* The protein: the residue number of each of its atoms.
ProteinResnums == <<1, 1, 2>>

\* The positions of the atoms of the protein the inputs are drawn from.
ProteinLayouts ==
    {[a \in DOMAIN ProteinResnums |-> <<(a + k) % (MaxCoord + 1), 0, 0>>] : k \in 0..1}

(***************************************************************************)
(* OpenMMEnergyFunc.__init__, statement by statement.  c_pc names the      *)
(* statement to run next; self.protein, self.simulation and the count of   *)
(* Simulation objects are e_protein, e_simulation and e_created.           *)
(***************************************************************************)
\* The force fields the constructor is run with: the one the two files
\* give, and every list of up to MaxGen generators of three classes.
GeneratorClasses == {"NonbondedGenerator", "HarmonicBondGenerator", "CustomGBGenerator"}
GeneratorLists ==
    {Amber14GBN2} \cup
    UNION {{[i \in 1..k |-> Generator(c[i], i)] : c \in SeqsOfLen(GeneratorClasses, k)} :
              k \in 0..MaxGen}

\* The library calls of the constructor, each named by the statement it
\* is made in.
CtorLibraryCalls ==
    {"TemporaryDirectory", "save", "PDBFile", "ForceField", "createSystem",
     "LangevinMiddleIntegrator", "Simulation"}

Topology(positions) == [natoms |-> Len(positions)]

\* The temporary directory: whether it exists, and the positions written
\* to the file tmp.pdb in it.
TempDir(state, positions) == [state |-> state, positions |-> positions]

CtorInit ==
    /\ MatchIdle
    /\ RestIdle
    /\ fault = NoExc
    /\ c_pc = "protein"
    /\ c_arg \in ProteinLayouts
    /\ c_tmp = NoTempDir
    /\ c_pdb = None
    /\ c_loaded = <<>>
    /\ c_ff = <<>>
    /\ c_omm = None
    /\ c_out = NoCall
    /\ e_protein = None
    /\ e_simulation = None
    /\ e_created = 0
    /\ e_sys = <<>>
    /\ e_last = NoCall
    /\ e_match_runs = 0

CtorRest == <<matchVars, restVars, e_sys, e_last, e_match_runs, c_arg>>

\* protein = protein.atoms; self.protein = protein
StoreProtein ==
    /\ c_pc = "protein"
    /\ e_protein' = [id |-> "protein.atoms", positions |-> c_arg]
    /\ c_pc' = "TemporaryDirectory"
    /\ UNCHANGED <<CtorRest, fault, c_tmp, c_pdb, c_loaded, c_ff, c_omm, c_out,
                   e_simulation, e_created>>

\* with TemporaryDirectory() as tempdir:
EnterTempDir ==
    /\ c_pc = "TemporaryDirectory"
    /\ c_tmp' = TempDir("empty", <<>>)
    /\ c_pc' = "save"
    /\ UNCHANGED <<CtorRest, fault, c_pdb, c_loaded, c_ff, c_omm, c_out,
                   e_protein, e_simulation, e_created>>

\* xl.save(f'{tempdir}/tmp.pdb', protein)
SaveProtein ==
    /\ c_pc = "save"
    /\ c_tmp' = TempDir("written", e_protein.positions)
    /\ c_pc' = "PDBFile"
    /\ UNCHANGED <<CtorRest, fault, c_pdb, c_loaded, c_ff, c_omm, c_out,
                   e_protein, e_simulation, e_created>>

\* pdb = PDBFile(f'{tempdir}/tmp.pdb')
ReadPDB ==
    /\ c_pc = "PDBFile"
    /\ c_tmp.state = "written"
    /\ c_pdb' = [kind |-> "PDBFile", ix |-> <<>>, topology |-> Topology(c_tmp.positions)]
    /\ c_pc' = "exit"
    /\ UNCHANGED <<CtorRest, fault, c_tmp, c_loaded, c_ff, c_omm, c_out,
                   e_protein, e_simulation, e_created>>

\* A with block that leaves the directory and its file behind.
LeaveTempDirKeepingIt ==
    /\ c_pc = "exit"
    /\ c_pc' = "ForceField"
    /\ UNCHANGED <<CtorRest, fault, c_tmp, c_pdb, c_loaded, c_ff, c_omm, c_out,
                   e_protein, e_simulation, e_created>>

\* the end of the with block: the directory and its file are removed
LeaveTempDir ==
    /\ c_pc = "exit"
    /\ c_tmp' = TempDir("removed", <<>>)
    /\ c_pc' = "ForceField"
    /\ UNCHANGED <<CtorRest, fault, c_pdb, c_loaded, c_ff, c_omm, c_out,
                   e_protein, e_simulation, e_created>>

\* ff = ForceField('amber14-all.xml', 'implicit/gbn2.xml')
LoadForceField(gens) ==
    /\ c_pc = "ForceField"
    /\ c_loaded' = gens
    /\ c_ff' = gens
    /\ c_pc' = "filter"
    /\ UNCHANGED <<CtorRest, fault, c_tmp, c_pdb, c_omm, c_out,
                   e_protein, e_simulation, e_created>>

\* ff._forces = [force for force in ff._forces if isinstance(...)]
FilterStep ==
    /\ c_pc = "filter"
    /\ c_ff' = FilterForces(c_ff)
    /\ c_pc' = "createSystem"
    /\ UNCHANGED <<CtorRest, fault, c_tmp, c_pdb, c_loaded, c_omm, c_out,
                   e_protein, e_simulation, e_created>>

\* omm_system = ff.createSystem(pdb.topology, ...)
CreateSystemStep ==
    /\ c_pc = "createSystem"
    /\ c_omm' = createSystem(c_pdb.topology, c_ff)
    /\ c_pc' = "LangevinMiddleIntegrator"
    /\ UNCHANGED <<CtorRest, fault, c_tmp, c_pdb, c_loaded, c_ff, c_out,
                   e_protein, e_simulation, e_created>>

\* integrator = LangevinMiddleIntegrator(...)
IntegratorStep ==
    /\ c_pc = "LangevinMiddleIntegrator"
    /\ c_pc' = "Simulation"
    /\ UNCHANGED <<CtorRest, fault, c_tmp, c_pdb, c_loaded, c_ff, c_omm, c_out,
                   e_protein, e_simulation, e_created>>

\* self.simulation = Simulation(pdb.topology, omm_system, integrator), and
\* the constructor returns
SimulationStep ==
    /\ c_pc = "Simulation"
    /\ e_simulation' = Simulation(e_created + 1, c_pdb.topology, c_omm)
    /\ e_created' = e_created + 1
    /\ c_pc' = "done"
    /\ c_out' = Returned(<<>>)
    /\ UNCHANGED <<CtorRest, fault, c_tmp, c_pdb, c_loaded, c_ff, c_omm, e_protein>>

\* The library call of the statement reached raises.  The constructor has
\* no handler: leaving the with block removes the directory, and the
\* exception leaves the constructor.
CtorRaise ==
    /\ c_pc \in CtorLibraryCalls
    /\ fault' = c_pc
    /\ c_out' = Raised(c_pc)
    /\ c_pc' = "raised"
    /\ c_tmp' = IF c_tmp.state \in {"none", "removed"} THEN c_tmp ELSE TempDir("removed", <<>>)
    /\ UNCHANGED <<CtorRest, c_pdb, c_loaded, c_ff, c_omm,
                   e_protein, e_simulation, e_created>>

CtorNext ==
    \/ StoreProtein
    \/ EnterTempDir
    \/ SaveProtein
    \/ ReadPDB
    \/ LeaveTempDir
    \/ \E gens \in GeneratorLists : LoadForceField(gens)
    \/ FilterStep
    \/ CreateSystemStep
    \/ IntegratorStep
    \/ SimulationStep
    \/ CtorRaise

SpecCtor == CtorInit /\ [][CtorNext]_vars

\* C10: from the filter on, ff._forces holds exactly the generators of the
\* loaded force field that are NonbondedGenerator instances, each once and
\* in the order they were loaded in, and the system createSystem built has
\* a force for each of them and for no other generator.
C10_OnlyNonbondedGenerators ==
    c_pc \in {"createSystem", "LangevinMiddleIntegrator", "Simulation", "done"} =>
        /\ \A i \in 1..Len(c_loaded) :
              (c_loaded[i].cls = "NonbondedGenerator")
                  <=> (\E j \in 1..Len(c_ff) : c_ff[j] = c_loaded[i])
        /\ \A j \in 1..Len(c_ff) : \E i \in 1..Len(c_loaded) : c_ff[j] = c_loaded[i]
        /\ \A j, k \in 1..Len(c_ff) : j < k => c_ff[j].n < c_ff[k].n
        /\ c_omm # None =>
              /\ Len(c_omm.forces) = Len(c_ff)
              /\ \A j \in 1..Len(c_ff) : c_omm.forces[j] = "NonbondedForce"

\* C10 witness: the constructor has finished on a force field loaded with
\* two nonbonded generators around a generator of another class.
C10_Witness ==
    /\ c_pc = "done"
    /\ Len(c_loaded) = 3
    /\ Len(c_ff) = 2
    /\ c_loaded[2].cls # "NonbondedGenerator"

(***************************************************************************)
(* OpenMMEnergyFunc: prepare_system and __call__.                          *)
(***************************************************************************)

\* The selection strings of the systems: each selects one residue.
SelStrs == {[resnum |-> ProteinResnums[a]] : a \in DOMAIN ProteinResnums}

\* A system as the caller hands it over: a selection string and coords.
System(selstr, coords) == [selstr |-> selstr, coords |-> coords]

\* Attributes of a Python object.
HasAttr(obj, a) == a \in DOMAIN obj
SetAttr(obj, a, v) == (a :> v) @@ obj

RECURSIVE IndicesFrom(_, _, _)
IndicesFrom(resnums, resnum, a) ==
    IF a > Len(resnums) THEN <<>>
    ELSE IF resnums[a] = resnum THEN <<a>> \o IndicesFrom(resnums, resnum, a + 1)
    ELSE IndicesFrom(resnums, resnum, a + 1)

\* psel = self.protein.select_atoms(system.selstr): psel.ix and psel.positions
select_atoms(protein, selstr) ==
    LET ix == IndicesFrom(ProteinResnums, selstr.resnum, 1)
    IN  [ix |-> ix, positions |-> [i \in 1..Len(ix) |-> protein.positions[ix[i]]]]

\* prepare_system(system): the system afterwards, the exception that left
\* it (fail names the library call that raises in this run, if any) and
\* whether match_atoms ran.
prepare_system(protein, system, fail) ==
    LET psel == select_atoms(protein, system.selstr)
        withIx == SetAttr(system, "efunc_protein_ix", Array(psel.ix))
    IN  IF fail = "select_atoms"
        THEN {[system |-> system, exc |-> "select_atoms", ran |-> 0]}
        ELSE IF fail = "linear_sum_assignment" /\ system.coords # <<>>
        THEN {[system |-> withIx, exc |-> "linear_sum_assignment", ran |-> 1]}
        ELSE {[system |-> SetAttr(withIx, "efunc_residue_ix", dmap), exc |-> NoExc, ran |-> 1] :
                dmap \in match_atoms(psel.positions, system.coords)}

\* The energy of the state of the simulation's context: every force of the
\* system adds the squared distances of all pairs of atoms.
PairTerm(positions) ==
    SumTo([a \in 1..Len(positions) |->
              SumTo([b \in 1..Len(positions) |->
                        IF b < a THEN SquaredDistances(positions, positions)[a][b] ELSE 0],
                    Len(positions))],
          Len(positions))
getPotentialEnergy(sim) == Len(sim.system.forces) * PairTerm(sim.positions)

\* A setPositions that builds a new Simulation object for the pose.
setPositionsOnNewSimulation(sim, pose) == [sim EXCEPT !.id = @ + 1, !.positions = pose]

\* simulation.context.setPositions(pose): the same Simulation object, its
\* context holding the pose.
setPositions(sim, pose) == [sim EXCEPT !.positions = pose]

\* rot[system.efunc_residue_ix]: indexing with None keeps every atom.
TakeAtoms(rot, residue_ix) ==
    IF residue_ix = None THEN rot
    ELSE [i \in 1..Len(residue_ix.ix) |-> rot[residue_ix.ix[i]]]

\* pose_start[system.efunc_protein_ix] = value, value having as many rows
\* as there are indices, or one row that is broadcast.
AssignAtoms(pose, protein_ix, value) ==
    [a \in 1..Len(pose) |->
        IF \E i \in 1..Len(protein_ix.ix) : protein_ix.ix[i] = a
        THEN LET i == CHOOSE i \in 1..Len(protein_ix.ix) : protein_ix.ix[i] = a
             IN  IF Len(value) = 1 THEN value[1] ELSE value[i]
        ELSE pose[a]]

\* The exception the body of the loop raises on rotamer rot by itself.
LoopBodyError(system, rot) ==
    IF ~HasAttr(system, "efunc_residue_ix") THEN "AttributeError"
    ELSE LET rix == system.efunc_residue_ix
             n == Len(system.efunc_protein_ix.ix)
         IN  IF rix # None /\ \E i \in 1..Len(rix.ix) : rix.ix[i] > Len(rot) THEN "IndexError"
             ELSE IF Len(TakeAtoms(rot, rix)) \notin {n, 1} THEN "ValueError"
             ELSE NoExc

\* The loop reading the energy before the context is given the new pose.
RECURSIVE EnergyLoopStale(_, _, _, _, _, _)
EnergyLoopStale(sim, pose_start, system, k, Es, fail) ==
    IF k > Len(system.coords) THEN [Es |-> Es, sim |-> sim, exc |-> NoExc]
    ELSE LET rot == system.coords[k]
             err == LoopBodyError(system, rot)
         IN  IF err # NoExc THEN [Es |-> Es, sim |-> sim, exc |-> err]
             ELSE LET pose == AssignAtoms(pose_start, system.efunc_protein_ix,
                                          TakeAtoms(rot, system.efunc_residue_ix))
                      moved == setPositions(sim, pose)
                  IN  IF fail = "setPositions" THEN [Es |-> Es, sim |-> sim, exc |-> fail]
                      ELSE IF fail = "getState" THEN [Es |-> Es, sim |-> moved, exc |-> fail]
                      ELSE EnergyLoopStale(moved, pose, system, k + 1,
                                           Append(Es, getPotentialEnergy(sim)), fail)

\* for rot in system.coords: ..., from rotamer k on: the energies appended,
\* the simulation, and the exception that ended the loop.
RECURSIVE EnergyLoop(_, _, _, _, _, _)
EnergyLoop(sim, pose_start, system, k, Es, fail) ==
    IF k > Len(system.coords) THEN [Es |-> Es, sim |-> sim, exc |-> NoExc]
    ELSE LET rot == system.coords[k]
             err == LoopBodyError(system, rot)
         IN  IF err # NoExc THEN [Es |-> Es, sim |-> sim, exc |-> err]
             ELSE LET pose == AssignAtoms(pose_start, system.efunc_protein_ix,
                                          TakeAtoms(rot, system.efunc_residue_ix))
                      moved == setPositions(sim, pose)
                  IN  IF fail = "setPositions" THEN [Es |-> Es, sim |-> sim, exc |-> fail]
                      ELSE IF fail = "getState" THEN [Es |-> Es, sim |-> moved, exc |-> fail]
                      ELSE EnergyLoop(moved, pose, system, k + 1,
                                      Append(Es, getPotentialEnergy(moved)), fail)


FailPoints == {NoExc, "select_atoms", "linear_sum_assignment", "setPositions", "getState"}

\* The ensembles the systems hold: rotamers with as many atoms as some
\* residue of the protein has, which need not be the residue selected.
ResidueSizes == {Len(IndicesFrom(ProteinResnums, sel.resnum, 1)) : sel \in SelStrs}
SystemEnsembles == UNION {SeqsUpTo(RotamerLibrary(m), MaxRot) : m \in ResidueSizes}

EfuncInit ==
    /\ MatchIdle
    /\ CtorIdle
    /\ RestIdle
    /\ fault = NoExc
    /\ e_protein \in {[id |-> "protein.atoms", positions |-> p] :
                        p \in ProteinLayouts}
    /\ e_simulation = Simulation(1, Topology(e_protein.positions),
                                 createSystem(Topology(e_protein.positions),
                                              FilterForces(Amber14GBN2)))
    /\ e_created = 1
    /\ e_sys \in {System(sel, c) : sel \in SelStrs, c \in SystemEnsembles}
    /\ e_last = NoCall
    /\ e_match_runs = 0

\* A test that prepares the system on every call.
AlwaysPrepare(system) == TRUE

\* if not hasattr(system, 'efunc_protein_ix')
NeedsPrepare(system) == ~HasAttr(system, "efunc_protein_ix")

\* omm_efunc(system): the whole of __call__, prepare_system included.
Call(fail) ==
    /\ e_sys # <<>>
    /\ LET needsPrepare == NeedsPrepare(e_sys)
           prepared == IF needsPrepare
                       THEN prepare_system(e_protein, e_sys, fail)
                       ELSE {[system |-> e_sys, exc |-> NoExc, ran |-> 0]}
       IN  \E prep \in prepared :
            /\ e_sys' = prep.system
            /\ e_match_runs' = e_match_runs + prep.ran
            /\ IF prep.exc # NoExc
               THEN /\ e_last' = Raised(prep.exc)
                    /\ fault' = prep.exc
                    /\ UNCHANGED e_simulation
               ELSE LET run == EnergyLoop(e_simulation, e_protein.positions,
                                          prep.system, 1, <<>>, fail)
                    IN  /\ e_simulation' = run.sim
                        /\ fault' = IF run.exc \in FailPoints THEN run.exc ELSE NoExc
                        /\ e_last' = IF run.exc # NoExc THEN Raised(run.exc)
                                     ELSE Returned(run.Es)
            /\ UNCHANGED <<e_protein, e_created, matchVars, ctorVars, restVars>>

\* The caller replaces the conformations of the system (sampling, trimming,
\* repacking) between two calls of the energy function.
SetCoords(c) ==
    /\ e_sys # <<>>
    /\ e_sys.coords # c
    /\ e_sys' = [e_sys EXCEPT !.coords = c]
    /\ e_last' = NoCall
    /\ fault' = NoExc
    /\ UNCHANGED <<e_protein, e_simulation, e_created, e_match_runs, matchVars, ctorVars, restVars>>

\* The caller goes on to another RotamerEnsemble attached to the protein.
NewSystem(selstr, c) ==
    /\ e_sys # <<>>
    /\ e_sys' = System(selstr, c)
    /\ e_match_runs' = 0
    /\ e_last' = NoCall
    /\ fault' = NoExc
    /\ UNCHANGED <<e_protein, e_simulation, e_created, matchVars, ctorVars, restVars>>

EfuncNext ==
    \/ \E fail \in FailPoints : Call(fail)
    \/ \E c \in SystemEnsembles : SetCoords(c)
    \/ \E sel \in SelStrs, c \in SystemEnsembles : NewSystem(sel, c)

SpecEfunc == EfuncInit /\ [][EfuncNext]_vars

(***************************************************************************)
(* Claims about the energy function.                                       *)
(***************************************************************************)
\* The pose rotamer k is scored in: the positions of the protein, with the
\* atoms the stored indices name taken from rotamer k.
PoseOfRotamer(k) ==
    AssignAtoms(e_protein.positions, e_sys.efunc_protein_ix,
                TakeAtoms(e_sys.coords[k], e_sys.efunc_residue_ix))

EnergyOfRotamer(k) ==
    Len(e_simulation.system.forces) * PairTerm(PoseOfRotamer(k))

\* C1: a call that returns gives one energy per conformation: the array
\* has len(system.coords) entries and entry k is the energy of the pose
\* holding system.coords[k] (an empty coords gives an empty array).
C1_OneEnergyPerConformation ==
    e_last.kind = "returned" =>
        /\ Len(e_last.Es) = Len(e_sys.coords)
        /\ \A k \in 1..Len(e_sys.coords) : e_last.Es[k] = EnergyOfRotamer(k)

\* C1 witness: a call returned two energies that differ.
C1_Witness ==
    /\ e_last.kind = "returned"
    /\ Len(e_last.Es) = 2
    /\ e_last.Es[1] # e_last.Es[2]

\* C3: whatever calls were made, on whatever systems, self.simulation is
\* the one Simulation object the constructor created and self.protein the
\* object it stored; no other Simulation was created.
C3_SimulationCreatedOnce ==
    /\ e_simulation.id = 1
    /\ e_created = 1
    /\ e_protein.id = "protein.atoms"
    /\ e_protein.positions \in ProteinLayouts

\* C3 witness: a call has scored two rotamers with the simulation, whose
\* context now holds the pose of the last one, not the protein's own.
C3_Witness ==
    /\ e_last.kind = "returned"
    /\ Len(e_last.Es) = 2
    /\ e_simulation.positions = PoseOfRotamer(2)
    /\ e_simulation.positions # e_protein.positions

EfuncAttributes == {"selstr", "coords", "efunc_protein_ix", "efunc_residue_ix"}

C8_State ==
    /\ e_match_runs <= 1
    /\ DOMAIN e_sys \subseteq EfuncAttributes
    /\ HasAttr(e_sys, "efunc_residue_ix") => HasAttr(e_sys, "efunc_protein_ix")

C8_Step ==
    /\ e_last'.kind # "none" =>
        /\ e_sys'.coords = e_sys.coords
        /\ e_sys'.selstr = e_sys.selstr
        /\ HasAttr(e_sys, "efunc_protein_ix") =>
              e_sys' = e_sys /\ e_match_runs' = e_match_runs
    /\ (e_last'.kind = "returned" /\ ~HasAttr(e_sys, "efunc_protein_ix")) =>
        /\ HasAttr(e_sys', "efunc_protein_ix")
        /\ HasAttr(e_sys', "efunc_residue_ix")
        /\ e_match_runs' = e_match_runs + 1

\* C8: match_atoms runs at most once per system.  A call that returns on a
\* system without efunc_protein_ix has run prepare_system, which stored
\* efunc_protein_ix and efunc_residue_ix; a call on a system that has
\* efunc_protein_ix leaves the system as it is and does not run match_atoms,
\* whatever system.coords has become.  No call changes system.coords or
\* system.selstr, and the two indices are the only attributes added.
C8_PreparedOncePerSystem == []C8_State /\ [][C8_Step]_vars

\* C8 witness: a call returned energies with indices that match_atoms would
\* not return for the conformations the system holds now.
C8_Witness ==
    /\ e_last.kind = "returned"
    /\ e_last.Es # <<>>
    /\ e_match_runs = 1
    /\ e_sys.efunc_residue_ix \notin
          match_atoms(select_atoms(e_protein, e_sys.selstr).positions, e_sys.coords)

(***************************************************************************)
(* Membrane docking: the objective function fitted by minimize.  Angles    *)
(* are whole numbers of quarter turns, so that every entry of a rotation   *)
(* matrix is -1, 0 or 1.                                                   *)
(***************************************************************************)
Cos4(k) == <<1, 0, -1, 0>>[(k % 4) + 1]
Sin4(k) == <<0, 1, 0, -1>>[(k % 4) + 1]

MatMul(A, B) ==
    [i \in 1..3 |-> [j \in 1..3 |->
        A[i][1] * B[1][j] + A[i][2] * B[2][j] + A[i][3] * B[3][j]]]

\* The rotations about the three fixed axes.
RotX(k) == <<<<1, 0, 0>>, <<0, Cos4(k), -Sin4(k)>>, <<0, Sin4(k), Cos4(k)>>>>
RotY(k) == <<<<Cos4(k), 0, Sin4(k)>>, <<0, 1, 0>>, <<-Sin4(k), 0, Cos4(k)>>>>
RotZ(k) == <<<<Cos4(k), -Sin4(k), 0>>, <<Sin4(k), Cos4(k), 0>>, <<0, 0, 1>>>>

\* Rotation.from_euler('xyz', angles).as_matrix(): extrinsic rotations
\* about x, then y, then z.
from_euler_xyz(angles) == MatMul(RotZ(angles[3]), MatMul(RotY(angles[2]), RotX(angles[1])))

\* v @ M for a row vector v
RowTimes(v, M) ==
    [j \in 1..3 |-> v[1] * M[1][j] + v[2] * M[2][j] + v[3] * M[3][j]]

VecAdd(u, v) == [j \in 1..3 |-> u[j] + v[j]]
VecSub(u, v) == [j \in 1..3 |-> u[j] - v[j]]

\* np.mean(rows, axis=0), for rows whose column sums are multiples of
\* their number
ColumnSum(rows, j) == SumTo([i \in 1..Len(rows) |-> rows[i][j]], Len(rows))
MeanRow(rows) == [j \in 1..3 |-> ColumnSum(rows, j) \div Len(rows)]

\* spin_centroids - np.mean(spin_centroids, axis=0)
CentredAtOrigin(rows) == [i \in 1..Len(rows) |-> VecSub(rows[i], MeanRow(rows))]

\* resid @ resid
Dot(u, v) == SumTo([i \in 1..Len(u) |-> u[i] * v[i]], Len(u))

\* An objective that turns a failure of a call it makes into a score.
objectiveCatching(par, fail) ==
    IF fail # NoExc THEN Returned(<<0>>)
    ELSE LET M == from_euler_xyz(<<par[1], par[2], par[3]>>)
             resid == [i \in 1..Len(o_ori) |->
                          VecAdd(RowTimes(o_ori[i], M), <<0, 0, par[4]>>)[3] - o_depths[i]]
         IN  Returned(<<Dot(resid, resid)>>)

\* An objective that leaves the shift along the third axis out.
objectiveUnshifted(par, fail) ==
    IF fail # NoExc THEN Raised(fail)
    ELSE LET M == from_euler_xyz(<<par[1], par[2], par[3]>>)
             resid == [i \in 1..Len(o_ori) |-> RowTimes(o_ori[i], M)[3] - o_depths[i]]
         IN  Returned(<<Dot(resid, resid)>>)

\* objective(par); fail names the library call that raises, if one does.
objective(par, fail) ==
    IF fail # NoExc THEN Raised(fail)
    ELSE LET M == from_euler_xyz(<<par[1], par[2], par[3]>>)
             spin_coords == [i \in 1..Len(o_ori) |->
                                VecAdd(RowTimes(o_ori[i], M), <<0, 0, par[4]>>)]
             resid == [i \in 1..Len(o_ori) |-> spin_coords[i][3] - o_depths[i]]
         IN  Returned(<<Dot(resid, resid)>>)

ObjectiveFailPoints == {NoExc, "from_euler", "as_matrix"}

\* The spin centroids the inputs are drawn from: points of the three axes.
CentroidPoints ==
    UNION {{<<2 * x, 0, 0>>, <<0, 2 * x, 0>>, <<0, 0, 2 * x>>} : x \in 0..MaxCoord}

\* The parameter vectors objective is evaluated at.
Parameters == {<<x, y, z, zdepth>> : x \in 0..3, y \in 0..3, z \in 0..3, zdepth \in 0..MaxCoord}

ObjInit ==
    /\ MatchIdle
    /\ CtorIdle
    /\ EfuncIdle
    /\ ScreenIdle
    /\ NbIdle
    /\ fault = NoExc
    /\ \E n \in 1..2 :
          /\ o_centroids \in SeqsOfLen(CentroidPoints, n)
          /\ o_depths \in SeqsOfLen(0..MaxCoord, n)
    /\ \A j \in 1..3 : ColumnSum(o_centroids, j) % Len(o_centroids) = 0
    /\ o_ori = CentredAtOrigin(o_centroids)
    /\ o_par \in Parameters
    /\ o_out = NoCall
    /\ DockIdle

\* minimize evaluates objective at the parameter vector.
Evaluate(fail) ==
    /\ o_out = NoCall
    /\ o_par # <<>>
    /\ o_out' = objective(o_par, fail)
    /\ fault' = fail
    /\ UNCHANGED <<o_centroids, o_ori, o_depths, o_par, dockVars, matchVars, ctorVars,
                   efuncVars, screenVars, nbVars>>

ObjNext == \E fail \in ObjectiveFailPoints : Evaluate(fail)

SpecObjective == ObjInit /\ [][ObjNext]_vars

(***************************************************************************)
(* The operations written in the notebooks, each run from its own inputs.  *)
(***************************************************************************)
OpsInit == MatchInit \/ CtorInit \/ EfuncInit \/ ObjInit

OpsNext == MatchNext \/ CtorNext \/ EfuncNext \/ ObjNext

SpecOps == OpsInit /\ [][OpsNext]_vars

\* C7: whenever a library call made inside match_atoms, __init__,
\* prepare_system, __call__ or objective raises, the operation that made
\* the call ends with that same exception and without a return value.
C7_FailuresPropagate ==
    fault # NoExc =>
        /\ m_pc # "idle" => (m_pc = "raised" /\ m_exc = fault /\ m_ret = None)
        /\ c_pc # "idle" => (c_pc = "raised" /\ c_out = Raised(fault) /\ e_simulation = None)
        /\ e_sys # <<>> => e_last = Raised(fault)
        /\ o_par # <<>> => o_out = Raised(fault)

\* C7 witness: linear_sum_assignment raised inside match_atoms, called by
\* prepare_system on the first call of the energy function for a system.
C7_Witness ==
    /\ e_created = 1
    /\ fault = "linear_sum_assignment"
    /\ e_last.kind = "raised"
    /\ HasAttr(e_sys, "efunc_protein_ix")
    /\ ~HasAttr(e_sys, "efunc_residue_ix")

(***************************************************************************)
(* The SDSL site-pair screen, cell by cell.  A residue of the structure    *)
(* is its number, its site volume and the spin centroid a label gets       *)
(* there; a score is a fraction <<numerator, denominator>>.                *)
(***************************************************************************)
NotScreen == <<matchVars, ctorVars, efuncVars, fault, objVars, nbVars>>

\* The site volumes and the centroid positions the inputs are drawn from.
SiteVolumes == {100, 125, 216}
CentroidCoords == {0, 24, 49}

Residue(resnum, vol, x) == [resnum |-> resnum, vol |-> vol, spin_centroid |-> <<x, 0, 0>>]

Structures ==
    UNION {{[i \in 1..n |-> Residue(i, v[i], x[i])] :
               v \in SeqsOfLen(SiteVolumes, n), x \in SeqsOfLen(CentroidCoords, n)} :
           n \in 0..MaxRes}

Abs(a) == IF a < 0 THEN -a ELSE a

\* np.linalg.norm of a vector whose length is a whole number
Norm(v) ==
    CHOOSE d \in 0..(Abs(v[1]) + Abs(v[2]) + Abs(v[3])) :
        d * d = v[1] * v[1] + v[2] * v[2] + v[3] * v[3]

\* vol ** (1/3) of a volume that is a cube
CubeRoot(vol) == CHOOSE c \in 0..vol : c * c * c = vol

Minimum(a, b) == IF a < b THEN a ELSE b

\* a < b for two scores with positive denominators
ScoreLess(a, b) == a[1] * b[2] < b[1] * a[2]

\* The index of the largest score.
ArgMax(scores) ==
    CHOOSE i \in 1..Len(scores) :
        /\ \A j \in 1..Len(scores) : ~ScoreLess(scores[i], scores[j])
        /\ \A j \in 1..(i - 1) : ScoreLess(scores[j], scores[i])

\* np.argmin(scores): the first index of the smallest score
ArgMin(scores) ==
    CHOOSE i \in 1..Len(scores) :
        /\ \A j \in 1..Len(scores) : ~ScoreLess(scores[j], scores[i])
        /\ \A j \in 1..(i - 1) : ScoreLess(scores[i], scores[j])

\* A labelling that also takes the residues whose volume is exactly 100.
LabelLoopFrom100(t4l, i, SLs) ==
    LET sel == SelectSeq(SubSeq(t4l, i, Len(t4l)), LAMBDA res : res.vol >= 100)
    IN  SLs \o [k \in 1..Len(sel) |->
                   [key |-> sel[k].resnum,
                    SL |-> [site |-> sel[k].resnum, spin_centroid |-> sel[k].spin_centroid],
                    vol |-> sel[k].vol]]

\* The loop of the labelling cell over zip(possible_residues,
\* vols[select_idxs]): the residues whose volume is above 100, in order.
RECURSIVE LabelLoop(_, _, _)
LabelLoop(t4l, i, SLs) ==
    IF i > Len(t4l) THEN SLs
    ELSE IF t4l[i].vol > 100
         THEN LabelLoop(t4l, i + 1,
                        Append(SLs, [key |-> t4l[i].resnum,
                                     SL |-> [site |-> t4l[i].resnum,
                                             spin_centroid |-> t4l[i].spin_centroid],
                                     vol |-> t4l[i].vol]))
         ELSE LabelLoop(t4l, i + 1, SLs)

\* combinations(SLs, 2): the pairs of positions i < j, in lexicographic order
RECURSIVE Combinations(_, _, _)
Combinations(i, j, n) ==
    IF i >= n THEN <<>>
    ELSE IF j > n THEN Combinations(i + 1, i + 2, n)
         ELSE <<<<i, j>>>> \o Combinations(i, j + 1, n)

\* mean_dist / (SL2.site - SL1.site) / np.minimum(vol1, vol2)**(1/3)
Score(mean_dist, SL1, vol1, SL2, vol2) ==
    <<mean_dist, (SL2.site - SL1.site) * CubeRoot(Minimum(vol1, vol2))>>

\* The loop of the scoring cell; its result is the lists pairs and scores.
RECURSIVE ScoreLoop(_, _, _, _, _)
ScoreLoop(SLs, combos, k, pairs, scores) ==
    IF k > Len(combos) THEN [pairs |-> pairs, scores |-> scores]
    ELSE LET e1 == SLs[combos[k][1]]
             e2 == SLs[combos[k][2]]
             perm == <<e1.key, e2.key>>
             mean_dist == Norm(VecSub(e1.SL.spin_centroid, e2.SL.spin_centroid))
         IN  IF mean_dist < 25
             THEN ScoreLoop(SLs, combos, k + 1, pairs, scores)
             ELSE ScoreLoop(SLs, combos, k + 1, Append(pairs, perm),
                            Append(scores, Score(mean_dist, e1.SL, e1.vol, e2.SL, e2.vol)))

ScreenInit ==
    /\ MatchIdle
    /\ CtorIdle
    /\ EfuncIdle
    /\ ObjIdle
    /\ NbIdle
    /\ fault = NoExc
    /\ s_pc = "label"
    /\ s_t4l \in Structures
    /\ s_SLs = <<>>
    /\ s_pairs = <<>>
    /\ s_scores = <<>>
    /\ s_best = <<>>
    /\ s_out = NoCall

\* The cell that fetches the structure, filters the residues by volume
\* and labels them.
LabelCell ==
    /\ s_pc = "label"
    /\ s_SLs' = LabelLoop(s_t4l, 1, <<>>)
    /\ s_pc' = "score"
    /\ UNCHANGED <<s_t4l, s_pairs, s_scores, s_best, s_out, NotScreen>>

\* The cell that scores the pairs of labels.
ScoreCell ==
    /\ s_pc = "score"
    /\ LET done == ScoreLoop(s_SLs, Combinations(1, 2, Len(s_SLs)), 1, <<>>, <<>>)
       IN  /\ s_pairs' = done.pairs
           /\ s_scores' = done.scores
    /\ s_pc' = "select"
    /\ UNCHANGED <<s_t4l, s_SLs, s_best, s_out, NotScreen>>

\* A selection that goes on to the plot when there is nothing to select.
SelectCellGoingOn ==
    /\ s_pc = "select"
    /\ s_best' = IF s_scores = <<>> THEN <<>> ELSE s_pairs[ArgMin(s_scores)]
    /\ s_pc' = "plot"
    /\ UNCHANGED <<s_t4l, s_SLs, s_pairs, s_scores, s_out, NotScreen>>

\* idx = np.argmin(scores); site1, site2 = pairs[idx].  np.argmin raises
\* ValueError on an empty list.
SelectCell ==
    /\ s_pc = "select"
    /\ IF s_scores = <<>>
       THEN /\ s_pc' = "raised"
            /\ s_out' = Raised("ValueError")
            /\ UNCHANGED s_best
       ELSE /\ s_best' = s_pairs[ArgMin(s_scores)]
            /\ s_pc' = "plot"
            /\ UNCHANGED s_out
    /\ UNCHANGED <<s_t4l, s_SLs, s_pairs, s_scores, NotScreen>>

\* The cell that plots the distance distribution of the selected pair and
\* saves the two labels and the structure.
PlotCell ==
    /\ s_pc = "plot"
    /\ s_pc' = "done"
    /\ s_out' = Returned(s_best)
    /\ UNCHANGED <<s_t4l, s_SLs, s_pairs, s_scores, s_best, NotScreen>>

\* The toolkit calls of the cells that make any.
ScreenLibraryCalls ==
    [label |-> {"fetch", "get_site_volume", "SpinLabel"},
     plot |-> {"distance_distribution", "save"}]

\* A toolkit call of the cell reached raises: the run of the notebook stops.
ScreenRaise(call) ==
    /\ s_pc \in DOMAIN ScreenLibraryCalls
    /\ call \in ScreenLibraryCalls[s_pc]
    /\ s_pc' = "raised"
    /\ s_out' = Raised(call)
    /\ UNCHANGED <<s_t4l, s_SLs, s_pairs, s_scores, s_best, NotScreen>>

ScreenNext ==
    \/ LabelCell
    \/ ScoreCell
    \/ SelectCell
    \/ PlotCell
    \/ \E call \in UNION {ScreenLibraryCalls[c] : c \in DOMAIN ScreenLibraryCalls} :
          ScreenRaise(call)

SpecScreen == ScreenInit /\ [][ScreenNext]_vars

(***************************************************************************)
(* Claims about the site-pair screen.                                      *)
(***************************************************************************)
\* The pairs of residues the claim calls admissible: two residues of the
\* structure, the first before the second, both with a site volume above
\* 100, whose spin centroids are at least 25 apart.
AdmissiblePairs ==
    {<<s_t4l[p[1]].resnum, s_t4l[p[2]].resnum>> :
        p \in {q \in (1..Len(s_t4l)) \X (1..Len(s_t4l)) :
                  /\ q[1] < q[2]
                  /\ s_t4l[q[1]].vol > 100
                  /\ s_t4l[q[2]].vol > 100
                  /\ Norm(VecSub(s_t4l[q[1]].spin_centroid,
                                 s_t4l[q[2]].spin_centroid)) >= 25}}

ResidueAt(resnum) == CHOOSE res \in {s_t4l[i] : i \in 1..Len(s_t4l)} : res.resnum = resnum

\* The score of a pair of residues, from the structure alone.
PairScore(pair) ==
    LET r1 == ResidueAt(pair[1])
        r2 == ResidueAt(pair[2])
    IN  <<Norm(VecSub(r1.spin_centroid, r2.spin_centroid)),
          (pair[2] - pair[1]) * CubeRoot(Minimum(r1.vol, r2.vol))>>

\* C4: the pair (site1, site2) the screen selects is an admissible pair,
\* and no admissible pair has a smaller score
\* mean_dist / (site2 - site1) / min(vol1, vol2)^(1/3).
C4_SelectsOptimalPair ==
    s_best # <<>> =>
        /\ s_best \in AdmissiblePairs
        /\ \A q \in AdmissiblePairs : ~ScoreLess(PairScore(q), PairScore(s_best))

\* C4 witness: three residues were labelled, one pair was dropped for its
\* distance, and the pair selected is not the first pair scored.
C4_Witness ==
    /\ s_pc = "done"
    /\ Len(s_SLs) = 3
    /\ Len(s_pairs) = 2
    /\ s_best # s_pairs[1]
    /\ ScoreLess(PairScore(s_best), PairScore(s_pairs[1]))

(***************************************************************************)
(* The four notebooks run top to bottom, one top-level statement at a      *)
(* time.  A statement is the line it starts at, the driver step it takes,  *)
(* the call it makes, the names it binds, the names it reads, and the      *)
(* argument lists of the calls of the toolkit's save function it makes.    *)
(***************************************************************************)
Stmt(line, step, call, defs, uses, saves) ==
    [line |-> line, step |-> step, call |-> call, defs |-> defs, uses |-> uses,
     saves |-> saves]

\* src/unnamed/part_000: the SDSL site-pair screen
ScreenNotebook ==
    <<
    Stmt(15, "import", "import", {"combinations"},
         {}, <<>>),
    Stmt(16, "import", "import", {"tqdm"},
         {}, <<>>),
    Stmt(17, "import", "import", {"np"},
         {}, <<>>),
    Stmt(18, "import", "import", {"plt"},
         {}, <<>>),
    Stmt(19, "import", "import", {"xl"},
         {}, <<>>),
    Stmt(41, "load", "fetch", {"t4l"},
         {"xl"}, <<>>),
    Stmt(44, "other", "get_site_volume", {"vols"},
         {"np", "xl", "tqdm", "t4l"}, <<>>),
    Stmt(45, "other", "argwhere", {"select_idxs"},
         {"np", "vols"}, <<>>),
    Stmt(46, "other", "", {"possible_residues"},
         {"t4l", "select_idxs"}, <<>>),
    Stmt(49, "other", "", {"SLs"},
         {}, <<>>),
    Stmt(50, "label", "SpinLabel", {"res", "vol"},
         {"tqdm", "possible_residues", "vols", "select_idxs", "SLs", "xl", "t4l"}, <<>>),
    Stmt(71, "other", "", {"pairs"},
         {}, <<>>),
    Stmt(72, "other", "", {"scores"},
         {}, <<>>),
    Stmt(73, "other", "linspace", {"r"},
         {"np"}, <<>>),
    Stmt(74, "compute", "norm", {"perm", "res1", "res2", "SL1", "vol1", "SL2", "vol2", "mean_dist"},
         {"tqdm", "combinations", "SLs", "np", "pairs", "scores"}, <<>>),
    Stmt(102, "other", "argmin", {"idx"},
         {"np", "scores"}, <<>>),
    Stmt(103, "other", "", {"site1", "site2"},
         {"pairs", "idx"}, <<>>),
    Stmt(104, "other", "", {},
         {"site1", "site2"}, <<>>),
    Stmt(125, "other", "", {"SL1", "vol1", "SL2", "vol2"},
         {"SLs", "site1", "site2"}, <<>>),
    Stmt(126, "other", "linspace", {"r"},
         {"np"}, <<>>),
    Stmt(127, "compute", "distance_distribution", {"P"},
         {"xl", "SL1", "SL2", "r"}, <<>>),
    Stmt(129, "other", "subplots", {"fig", "ax"},
         {"plt"}, <<>>),
    Stmt(130, "plot", "plot", {},
         {"ax", "r", "P"}, <<>>),
    Stmt(133, "other", "set_xlabel", {},
         {"ax"}, <<>>),
    Stmt(134, "other", "set_yticks", {},
         {"ax"}, <<>>),
    Stmt(135, "other", "set_visible", {"spine"},
         {"ax"}, <<>>),
    Stmt(139, "other", "show", {},
         {"plt"}, <<>>),
    Stmt(140, "save", "save", {},
         {"xl", "SL1", "SL2", "t4l"}, <<<<"label", "label", "protein">>>>)
    >>

\* Notebook 06 with a save call that names its output path last.
Notebook06PathLast ==
    <<
    Stmt(25, "import", "import", {"np"},
         {}, <<>>),
    Stmt(26, "import", "import", {"Rotation"},
         {}, <<>>),
    Stmt(27, "import", "import", {"minimize"},
         {}, <<>>),
    Stmt(28, "import", "import", {"xl"},
         {}, <<>>),
    Stmt(48, "load", "fetch", {"CPLA_C2"},
         {"xl"}, <<>>),
    Stmt(49, "load", "loadtxt", {"sites", "depths"},
         {"np"}, <<>>),
    Stmt(52, "label", "SpinLabel", {"label_list"},
         {"xl", "sites", "CPLA_C2"}, <<>>),
    Stmt(53, "other", "array", {"spin_centroids"},
         {"np", "label_list"}, <<>>),
    Stmt(56, "other", "mean", {"spin_at_ori"},
         {"spin_centroids", "np"}, <<>>),
    Stmt(59, "other", "", {"objective"},
         {}, <<>>),
    Stmt(73, "compute", "minimize", {"fit"},
         {"minimize", "objective", "Rotation", "spin_at_ori", "np", "depths"}, <<>>),
    Stmt(83, "other", "from_euler", {"R"},
         {"Rotation", "fit"}, <<>>),
    Stmt(84, "other", "mean", {},
         {"CPLA_C2", "np", "spin_centroids", "R", "fit"}, <<>>),
    Stmt(87, "other", "empty_like", {"spin_centroids"},
         {"np", "spin_centroids"}, <<>>),
    Stmt(88, "compute", "to_site", {"i", "SL"},
         {"label_list", "CPLA_C2", "spin_centroids"}, <<>>),
    Stmt(93, "save", "save", {},
         {"xl", "label_list", "CPLA_C2"}, <<<<"labels", "protein", "path">>>>),
    Stmt(115, "import", "import", {"plt"},
         {}, <<>>),
    Stmt(116, "plot", "scatter", {},
         {"plt", "sites", "depths"}, <<>>),
    Stmt(117, "plot", "scatter", {},
         {"plt", "sites", "spin_centroids"}, <<>>),
    Stmt(118, "other", "ylabel", {},
         {"plt"}, <<>>),
    Stmt(119, "other", "xlabel", {},
         {"plt"}, <<>>),
    Stmt(120, "other", "legend", {},
         {"plt"}, <<>>),
    Stmt(121, "other", "show", {},
         {"plt"}, <<>>)
    >>

\* 06 - Membrane Docking
Notebook06 ==
    <<
    Stmt(25, "import", "import", {"np"},
         {}, <<>>),
    Stmt(26, "import", "import", {"Rotation"},
         {}, <<>>),
    Stmt(27, "import", "import", {"minimize"},
         {}, <<>>),
    Stmt(28, "import", "import", {"xl"},
         {}, <<>>),
    Stmt(48, "load", "fetch", {"CPLA_C2"},
         {"xl"}, <<>>),
    Stmt(49, "load", "loadtxt", {"sites", "depths"},
         {"np"}, <<>>),
    Stmt(52, "label", "SpinLabel", {"label_list"},
         {"xl", "sites", "CPLA_C2"}, <<>>),
    Stmt(53, "other", "array", {"spin_centroids"},
         {"np", "label_list"}, <<>>),
    Stmt(56, "other", "mean", {"spin_at_ori"},
         {"spin_centroids", "np"}, <<>>),
    Stmt(59, "other", "", {"objective"},
         {}, <<>>),
    Stmt(73, "compute", "minimize", {"fit"},
         {"minimize", "objective", "Rotation", "spin_at_ori", "np", "depths"}, <<>>),
    Stmt(83, "other", "from_euler", {"R"},
         {"Rotation", "fit"}, <<>>),
    Stmt(84, "other", "mean", {},
         {"CPLA_C2", "np", "spin_centroids", "R", "fit"}, <<>>),
    Stmt(87, "other", "empty_like", {"spin_centroids"},
         {"np", "spin_centroids"}, <<>>),
    Stmt(88, "compute", "to_site", {"i", "SL"},
         {"label_list", "CPLA_C2", "spin_centroids"}, <<>>),
    Stmt(93, "save", "save", {},
         {"xl", "label_list", "CPLA_C2"}, <<<<"path", "labels", "protein">>>>),
    Stmt(115, "import", "import", {"plt"},
         {}, <<>>),
    Stmt(116, "plot", "scatter", {},
         {"plt", "sites", "depths"}, <<>>),
    Stmt(117, "plot", "scatter", {},
         {"plt", "sites", "spin_centroids"}, <<>>),
    Stmt(118, "other", "ylabel", {},
         {"plt"}, <<>>),
    Stmt(119, "other", "xlabel", {},
         {"plt"}, <<>>),
    Stmt(120, "other", "legend", {},
         {"plt"}, <<>>),
    Stmt(121, "other", "show", {},
         {"plt"}, <<>>)
    >>

\* 12 - Arbitrary molecular labels
Notebook12 ==
    <<
    Stmt(18, "import", "import", {"np"},
         {}, <<>>),
    Stmt(19, "import", "import", {"plt"},
         {}, <<>>),
    Stmt(20, "import", "import", {"xl"},
         {}, <<>>),
    Stmt(21, "other", "use", {},
         {"plt"}, <<>>),
    Stmt(58, "other", "", {"aln_atoms"},
         {}, <<>>),
    Stmt(59, "other", "", {"spin_atoms"},
         {}, <<>>),
    Stmt(61, "other", "create_library", {},
         {"xl", "aln_atoms", "spin_atoms"}, <<>>),
    Stmt(103, "other", "rotlib_info", {},
         {"xl"}, <<>>),
    Stmt(121, "other", "linspace", {"r"},
         {"np"}, <<>>),
    Stmt(122, "compute", "distance_distribution", {"P"},
         {"xl", "labels", "r"}, <<>>),
    Stmt(143, "other", "subplots", {"fig", "ax"},
         {"plt"}, <<>>),
    Stmt(144, "plot", "plot", {},
         {"ax", "r", "P"}, <<>>),
    Stmt(145, "other", "set_xlabel", {},
         {"ax"}, <<>>),
    Stmt(146, "other", "set_yticks", {},
         {"ax"}, <<>>),
    Stmt(147, "other", "set_visible", {"spine"},
         {"ax"}, <<>>),
    Stmt(152, "other", "show", {},
         {"plt"}, <<>>),
    Stmt(153, "save", "save", {},
         {"xl", "labels", "prot"}, <<<<"labels", "protein">>>>)
    >>

\* 13 - OpenMM Score Function
Notebook13 ==
    <<
    Stmt(33, "import", "import", {"np"},
         {}, <<>>),
    Stmt(34, "import", "import", {"linear_sum_assignment"},
         {}, <<>>),
    Stmt(35, "import", "import", {"plt"},
         {}, <<>>),
    Stmt(37, "import", "import", {"xl"},
         {}, <<>>),
    Stmt(38, "import", "import", {"TemporaryDirectory"},
         {}, <<>>),
    Stmt(40, "import", "import", {"unit", "forcefield"},
         {}, <<>>),
    Stmt(41, "import", "import", {"PDBFile", "ForceField", "CutoffNonPeriodic", "LangevinMiddleIntegrator", "Simulation"},
         {}, <<>>),
    Stmt(51, "other", "", {"match_atoms"},
         {}, <<>>),
    Stmt(81, "other", "", {"OpenMMEnergyFunc"},
         {}, <<>>),
    Stmt(149, "load", "load_protein", {"protein"},
         {"xl"}, <<>>),
    Stmt(152, "other", "OpenMMEnergyFunc", {"omm_efunc"},
         {"OpenMMEnergyFunc", "protein", "xl", "TemporaryDirectory", "PDBFile", "ForceField", "forcefield", "CutoffNonPeriodic", "unit", "LangevinMiddleIntegrator", "Simulation"}, <<<<"path", "protein">>>>),
    Stmt(155, "label", "RotamerEnsemble", {"RL"},
         {"xl", "protein", "omm_efunc", "match_atoms", "np", "linear_sum_assignment", "unit"}, <<>>),
    Stmt(174, "compute", "repack", {"traj", "de"},
         {"xl", "protein", "RL", "omm_efunc", "match_atoms", "np", "linear_sum_assignment", "unit"}, <<>>),
    Stmt(195, "other", "subplots", {"fig", "ax"},
         {"plt"}, <<>>),
    Stmt(196, "plot", "plot", {},
         {"ax", "np", "de"}, <<>>),
    Stmt(198, "other", "set_xlabel", {},
         {"ax"}, <<>>),
    Stmt(199, "other", "set_ylabel", {},
         {"ax"}, <<>>),
    Stmt(200, "other", "show", {},
         {"plt"}, <<>>)
    >>

Books == {"screen", "06", "12", "13"}

Notebook(book) ==
    CASE book = "screen" -> ScreenNotebook
      [] book = "06" -> Notebook06
      [] book = "12" -> Notebook12
      [] book = "13" -> Notebook13

\* The steps of the driver routine.
DriverSteps == {"load", "label", "compute", "plot"}

NotNotebooks == <<matchVars, ctorVars, efuncVars, fault, objVars, screenVars>>

NbInit ==
    /\ MatchIdle
    /\ CtorIdle
    /\ EfuncIdle
    /\ ObjIdle
    /\ ScreenIdle
    /\ fault = NoExc
    /\ n_book \in Books
    /\ n_pc = 1
    /\ n_defined = {}
    /\ n_steps = <<>>
    /\ n_saves = <<>>
    /\ n_out = NoCall

\* The next statement runs.  Reading a name that no earlier statement
\* bound raises NameError, which ends the run; after the last statement
\* the run is over.
RunStatement ==
    /\ n_out = NoCall
    /\ n_pc <= Len(Notebook(n_book))
    /\ LET st == Notebook(n_book)[n_pc]
       IN  IF ~(st.uses \subseteq n_defined)
           THEN /\ n_out' = Raised("NameError")
                /\ UNCHANGED <<n_pc, n_defined, n_steps, n_saves>>
           ELSE /\ n_defined' = n_defined \cup st.defs
                /\ n_steps' = IF st.step \in DriverSteps THEN Append(n_steps, st.step)
                              ELSE n_steps
                /\ n_saves' = n_saves \o st.saves
                /\ n_pc' = n_pc + 1
                /\ n_out' = IF n_pc = Len(Notebook(n_book)) THEN Returned(<<>>) ELSE NoCall
    /\ UNCHANGED <<n_book, NotNotebooks>>

\* The call the next statement makes raises: the run ends there.
StatementRaises ==
    /\ n_out = NoCall
    /\ n_pc <= Len(Notebook(n_book))
    /\ LET st == Notebook(n_book)[n_pc]
       IN  /\ st.call # ""
           /\ st.uses \subseteq n_defined
           /\ n_out' = Raised(st.call)
    /\ UNCHANGED <<n_book, n_pc, n_defined, n_steps, n_saves, NotNotebooks>>

NbNext == RunStatement \/ StatementRaises

SpecNotebooks == NbInit /\ [][NbNext]_vars

(***************************************************************************)
(* Claims about the notebooks.                                             *)
(***************************************************************************)
\* Step kind `step' is taken at position i of `steps' only after step
\* kind `before' was taken.
Preceded(steps, step, before) ==
    \A i \in 1..Len(steps) :
        steps[i] = step => \E j \in 1..(i - 1) : steps[j] = before

\* C5: in every notebook run top to bottom the driver steps come in the
\* order load, label, compute, plot, and no statement reads a label or a
\* structure that no earlier statement of the notebook constructed.
C5_DriverStepsInOrder ==
    /\ n_out # Raised("NameError")
    /\ Preceded(n_steps, "label", "load")
    /\ Preceded(n_steps, "compute", "label")
    /\ Preceded(n_steps, "plot", "compute")

\* A save call that lists only labels and proteins, after the output path
\* if it names one.
PathFirstIfAny(args) ==
    /\ \A k \in 1..Len(args) : args[k] = "path" => k = 1
    /\ \E k \in 1..Len(args) : args[k] \in {"label", "labels", "protein"}
    /\ \A k \in 1..Len(args) : args[k] \in {"path", "label", "labels", "protein"}

\* C6: every save call of the notebook being run, made so far or not,
\* passes labels and proteins as a variadic list, and the output path, if
\* it passes one, as the first argument.
C6_PathFirstWhenGiven ==
    /\ \A k \in 1..Len(n_saves) : PathFirstIfAny(n_saves[k])
    /\ n_book \in Books =>
          \A i \in 1..Len(Notebook(n_book)) :
              \A k \in 1..Len(Notebook(n_book)[i].saves) :
                  PathFirstIfAny(Notebook(n_book)[i].saves[k])

\* C6 as stated: every save call made passes an output path as its first
\* argument, followed by the labels and proteins.
C6_PathAlwaysFirst ==
    \A k \in 1..Len(n_saves) :
        /\ n_saves[k][1] = "path"
        /\ PathFirstIfAny(n_saves[k])

\* C6 witness: the site-pair screen ran to its end and made its save
\* call, which starts with a label.
C6_Witness ==
    /\ n_book = "screen"
    /\ n_out = Returned(<<>>)
    /\ Len(n_saves) = 1
    /\ n_saves[1][1] = "label"

(***************************************************************************)
(* Further claims about the constructor.                                   *)
(***************************************************************************)
\* The forces of the system the stored Simulation reads energies from.
SimulationForces == {e_simulation.system.forces[i] : i \in 1..Len(e_simulation.system.forces)}

AfterWithBlock ==
    {"ForceField", "filter", "createSystem", "LangevinMiddleIntegrator", "Simulation", "done"}

\* The file is there when it is read, the directory is gone once the with
\* block is left, by its end or by an exception of the save or the read,
\* and what is built afterwards has the topology read from the file.
C12_State ==
    /\ c_pc = "PDBFile" => c_tmp.state = "written"
    /\ c_pc \in AfterWithBlock =>
          /\ c_tmp.state = "removed"
          /\ c_pdb # None
          /\ c_pdb.topology = Topology(c_arg)
    /\ (c_pc = "raised" /\ c_out.exc \in {"save", "PDBFile"}) => c_tmp.state = "removed"
    /\ c_pc = "done" =>
          /\ e_simulation.topology = c_pdb.topology
          /\ c_omm.topology = c_pdb.topology

\* The file is read in a step that finds it written and leaves it in place;
\* the force field, the system and the Simulation change only in steps
\* that find the directory removed.
C12_Step ==
    /\ (c_pdb = None /\ c_pdb' # None) =>
          (c_tmp.state = "written" /\ c_tmp' = c_tmp
             /\ c_pdb'.topology = Topology(c_tmp.positions))
    /\ (c_loaded' # c_loaded \/ c_ff' # c_ff \/ c_omm' # c_omm
          \/ e_simulation' # e_simulation) =>
          (c_tmp.state = "removed" /\ c_tmp' = c_tmp)

\* C12: the temporary PDB file is written and read while the temporary
\* directory exists, the directory is removed when the with block is left,
\* also by an exception of the save or of the read, and the ForceField,
\* the system and the Simulation are built only after that, from the
\* topology held in memory.
C12_TempFileOnlyInsideWith == []C12_State /\ [][C12_Step]_vars

\* C12 witness: the constructor returned; the directory is gone and the
\* Simulation has the topology of the protein that was written.
C12_Witness ==
    /\ c_pc = "done"
    /\ c_tmp.state = "removed"
    /\ e_simulation # None
    /\ e_simulation.topology = Topology(c_arg)
    /\ Len(c_ff) > 0

(***************************************************************************)
(* Claims about the docking objective.                                     *)
(***************************************************************************)
Identity3 == <<<<1, 0, 0>>, <<0, 1, 0>>, <<0, 0, 1>>>>
Transpose(M) == [i \in 1..3 |-> [j \in 1..3 |-> M[j][i]]]
Det3(M) ==
    M[1][1] * (M[2][2] * M[3][3] - M[2][3] * M[3][2])
    - M[1][2] * (M[2][1] * M[3][3] - M[2][3] * M[3][1])
    + M[1][3] * (M[2][1] * M[3][2] - M[2][2] * M[3][1])

\* M is a proper rotation.
IsRotation(M) == MatMul(M, Transpose(M)) = Identity3 /\ Det3(M) = 1

\* The rotation the parameter vector evaluated stands for.
ParRotation == from_euler_xyz(<<o_par[1], o_par[2], o_par[3]>>)

\* The model depth of site i: the third coordinate of the centred centroid
\* times the rotation matrix, plus zdepth.
ModelDepth(i) ==
    o_ori[i][1] * ParRotation[1][3] + o_ori[i][2] * ParRotation[2][3]
    + o_ori[i][3] * ParRotation[3][3] + o_par[4]

RECURSIVE SquaredErrorUpTo(_)
SquaredErrorUpTo(n) ==
    IF n = 0 THEN 0
    ELSE SquaredErrorUpTo(n - 1)
         + (ModelDepth(n) - o_depths[n]) * (ModelDepth(n) - o_depths[n])

\* C13: the value objective returns for a parameter vector is the sum over
\* the labelled sites of (zcoord_i - depths[i])^2, zcoord_i being the
\* third coordinate of the centred spin centroid after the rotation of the
\* Euler angles and the shift by zdepth; it is never negative and is zero
\* exactly when every model depth equals its experimental depth.
C13_SumOfSquaresError ==
    o_out.kind = "returned" =>
        /\ IsRotation(ParRotation)
        /\ \A i \in 1..Len(o_ori), j \in 1..3 :
              o_ori[i][j] * Len(o_centroids)
                  = o_centroids[i][j] * Len(o_centroids) - ColumnSum(o_centroids, j)
        /\ o_out.Es = <<SquaredErrorUpTo(Len(o_ori))>>
        /\ o_out.Es[1] >= 0
        /\ (o_out.Es[1] = 0) <=> (\A i \in 1..Len(o_ori) : ModelDepth(i) = o_depths[i])

\* C13 witness: two sites, a rotation that turns a centroid lying off the
\* third axis onto it, a shift that is not zero, and an error above zero.
C13_Witness ==
    /\ o_out.kind = "returned"
    /\ Len(o_ori) = 2
    /\ o_par[4] # 0
    /\ \E i \in 1..2 : o_ori[i][3] = 0 /\ ModelDepth(i) # o_par[4]
    /\ o_out.Es[1] > 0

(***************************************************************************)
(* Membrane docking, the cells after the definition of objective: the fit, *)
(* the move of the protein to the fitted location, the re-placement of the *)
(* labels, the save and the plot.                                          *)
(***************************************************************************)
NotDocking == <<matchVars, ctorVars, efuncVars, screenVars, nbVars>>

\* The backbone atoms N, CA and C of a residue whose N atom is at p.
Backbone(p) == [N |-> p, CA |-> VecAdd(p, <<0, 2, 0>>), C |-> VecAdd(p, <<2, 2, 0>>)]

\* SL.spin_centroid of a label placed on the backbone atoms bb: a point
\* fixed in the frame of the three atoms.
spin_centroid(bb) == VecSub(VecAdd(bb.N, bb.C), bb.CA)

\* The structures fetched: two residues, numbered 1 and 2.
DockProteins == {<<Backbone(p), Backbone(q)>> : p, q \in CentroidPoints}

\* The residue numbers read from the depth data.
SiteLists == {<<1>>, <<2>>, <<1, 2>>, <<2, 1>>}

\* [xl.SpinLabel('R1M', site, protein=CPLA_C2, sample=1000) for site in sites]
LabelList(sites, protein) ==
    [i \in 1..Len(sites) |->
        [site |-> sites[i], spin_centroid |-> spin_centroid(protein[sites[i]])]]

\* A move that multiplies the matrix from the left of the positions.
MoveAtomLeftMultiplied(p, centre, R, shift) ==
    VecAdd(RowTimes(VecSub(p, centre), Transpose(R)), shift)

\* (positions - centre) @ R + shift, for one atom
MoveAtom(p, centre, R, shift) == VecAdd(RowTimes(VecSub(p, centre), R), shift)

MoveProtein(protein, centre, R, shift) ==
    [r \in 1..Len(protein) |->
        [N |-> MoveAtom(protein[r].N, centre, R, shift),
         CA |-> MoveAtom(protein[r].CA, centre, R, shift),
         C |-> MoveAtom(protein[r].C, centre, R, shift)]]

\* A loop that places every label but does not store the last centroid.
RelabelLoopShort(labels, protein, i, spin_centroids) ==
    [labels |-> [k \in 1..Len(labels) |->
                    [labels[k] EXCEPT !.spin_centroid = spin_centroid(protein[labels[k].site])]],
     spin_centroids |-> [k \in 1..Len(spin_centroids) |->
                            IF k < Len(labels) THEN spin_centroid(protein[labels[k].site])
                            ELSE spin_centroids[k]]]

\* for i, SL in enumerate(label_list): SL.to_site(...); spin_centroids[i] = SL.spin_centroid
RECURSIVE RelabelLoop(_, _, _, _)
RelabelLoop(labels, protein, i, spin_centroids) ==
    IF i > Len(labels) THEN [labels |-> labels, spin_centroids |-> spin_centroids]
    ELSE LET SL == [labels[i] EXCEPT
                       !.spin_centroid = spin_centroid(protein[labels[i].site])]
         IN  RelabelLoop([labels EXCEPT ![i] = SL], protein, i + 1,
                         [spin_centroids EXCEPT ![i] = SL.spin_centroid])

\* The rows np.empty_like may hand out: any content; two values stand for it.
UninitializedRows == {<<0, 0, 0>>, <<0, 0, 2>>}

\* The experimental depths of the data file: two levels.
DepthLevels == {0, 1}

\* The parameter vectors at which the fit may end.
FittedParameters == {par \in Parameters : par[4] \in DepthLevels}

DockInit ==
    /\ MatchIdle
    /\ CtorIdle
    /\ EfuncIdle
    /\ ScreenIdle
    /\ NbIdle
    /\ fault = NoExc
    /\ o_pc = "minimize"
    /\ o_protein \in DockProteins
    /\ o_sites \in SiteLists
    /\ o_depths \in SeqsOfLen(DepthLevels, Len(o_sites))
    /\ o_labels = LabelList(o_sites, o_protein)
    /\ o_centroids = [i \in 1..Len(o_labels) |-> o_labels[i].spin_centroid]
    /\ \A j \in 1..3 : ColumnSum(o_centroids, j) % Len(o_centroids) = 0
    /\ o_ori = CentredAtOrigin(o_centroids)
    /\ o_par = <<>>
    /\ o_out = NoCall
    /\ o_fit = <<>>

\* fit = minimize(objective, ...): the fit ends at some parameter vector,
\* at which objective was evaluated, unless a call of objective raises.
Minimize(par, fail) ==
    /\ o_pc = "minimize"
    /\ o_par' = par
    /\ o_out' = objective(par, fail)
    /\ fault' = fail
    /\ IF fail = NoExc
       THEN o_fit' = par /\ o_pc' = "move"
       ELSE o_fit' = o_fit /\ o_pc' = "raised"
    /\ UNCHANGED <<o_centroids, o_ori, o_depths, o_sites, o_protein, o_labels, NotDocking>>

\* R = Rotation.from_euler('xyz', fit.x[:3]).as_matrix() and the
\* assignment to CPLA_C2.atoms.positions
MoveCell ==
    /\ o_pc = "move"
    /\ o_protein' = MoveProtein(o_protein, MeanRow(o_centroids),
                                from_euler_xyz(<<o_fit[1], o_fit[2], o_fit[3]>>),
                                <<0, 0, o_fit[4]>>)
    /\ o_pc' = "relabel"
    /\ UNCHANGED <<o_centroids, o_ori, o_depths, o_par, o_out, o_fit, o_sites, o_labels,
                   fault, NotDocking>>

\* spin_centroids = np.empty_like(spin_centroids) and the loop that fills
\* it: the new array starts with whatever its memory holds.
RelabelCell ==
    /\ o_pc = "relabel"
    /\ \E uninitialized \in SeqsOfLen(UninitializedRows, Len(o_centroids)) :
          LET done == RelabelLoop(o_labels, o_protein, 1, uninitialized)
          IN  /\ o_labels' = done.labels
              /\ o_centroids' = done.spin_centroids
    /\ o_pc' = "save"
    /\ UNCHANGED <<o_ori, o_depths, o_par, o_out, o_fit, o_sites, o_protein, fault,
                   NotDocking>>

\* xl.save('C2_docked.pdb', *label_list, CPLA_C2, KDE=False) and the cell
\* that plots depths and spin_centroids[:, 2] against sites
SaveAndPlotCells ==
    /\ o_pc = "save"
    /\ o_pc' = "done"
    /\ UNCHANGED <<o_centroids, o_ori, o_depths, o_par, o_out, o_fit, o_sites, o_protein,
                   o_labels, fault, NotDocking>>

DockNext ==
    \/ \E par \in FittedParameters, fail \in ObjectiveFailPoints : Minimize(par, fail)
    \/ MoveCell
    \/ RelabelCell
    \/ SaveAndPlotCells

SpecDocking == DockInit /\ [][DockNext]_vars

\* The vector objective subtracts from every centroid before rotating:
\* the difference of an original centroid and its centred copy.
ObjectiveCentre == VecSub(o_centroids[1], o_ori[1])

FitRotation == from_euler_xyz(<<o_par[1], o_par[2], o_par[3]>>)

ObjectiveTransform(p) ==
    VecAdd(RowTimes(VecSub(p, ObjectiveCentre), FitRotation), <<0, 0, o_par[4]>>)

C14_State ==
    o_pc \in {"move", "relabel", "save", "done"} =>
        /\ o_fit = o_par
        /\ o_out = objective(o_fit, NoExc)
        /\ o_pc # "move" =>
              \A i \in 1..Len(o_sites) :
                  spin_centroid(o_protein[o_sites[i]]) =
                      VecAdd(RowTimes(o_ori[i], FitRotation), <<0, 0, o_fit[4]>>)

C14_Step ==
    o_pc = "move" =>
        \A r \in 1..Len(o_protein) :
            /\ o_protein'[r].N = ObjectiveTransform(o_protein[r].N)
            /\ o_protein'[r].CA = ObjectiveTransform(o_protein[r].CA)
            /\ o_protein'[r].C = ObjectiveTransform(o_protein[r].C)

\* C14: the move of the protein applies to every atom the rigid transform
\* that objective evaluated at the fitted parameters: the same centring
\* vector (the mean of the original spin centroids), the rotation of the
\* first three fitted parameters multiplied from the same side, and a
\* shift of the fourth parameter along the third axis only; the labels of
\* the moved protein then sit where objective placed their centroids.
C14_MovedByObjectiveTransform == []C14_State /\ [][C14_Step]_vars

C14_Witness ==
    /\ o_pc = "relabel"
    /\ Len(o_sites) = 2
    /\ o_fit[1] = 1
    /\ o_fit[2] = 1
    /\ o_fit[4] # 0
    /\ o_ori[1] # <<0, 0, 0>>
    /\ FitRotation # Transpose(FitRotation)

\* C15: after the move step spin_centroids has one row per label, every
\* row written by the loop; row i holds the centroid of label_list[i]
\* re-placed on the moved backbone of residue label_list[i].site, and
\* label_list[i] is the label of sites[i], the site of depths[i].
C15_CentroidsFollowSites ==
    o_pc \in {"save", "done"} =>
        /\ Len(o_centroids) = Len(o_sites)
        /\ Len(o_labels) = Len(o_sites)
        /\ Len(o_depths) = Len(o_sites)
        /\ \A i \in 1..Len(o_sites) :
              /\ o_labels[i].site = o_sites[i]
              /\ o_labels[i].spin_centroid = spin_centroid(o_protein[o_sites[i]])
              /\ o_centroids[i] = o_labels[i].spin_centroid
              /\ o_centroids[i] =
                     VecAdd(RowTimes(o_ori[i], FitRotation), <<0, 0, o_fit[4]>>)

C15_Witness ==
    /\ o_pc = "done"
    /\ o_sites = <<2, 1>>
    /\ o_centroids[1] # o_centroids[2]
    /\ o_fit[1] # 0
    /\ o_fit[4] # 0

\* The labelling cell has run to its end.
Labelled ==
    \/ s_pc \in {"score", "select", "plot", "done"}
    \/ s_pc = "raised" /\ s_out.exc \notin ScreenLibraryCalls.label

\* C16: the screen labels exactly the residues whose volume is strictly
\* above 100: a residue number is a key of SLs if and only if its volume
\* exceeds 100, and the value under the key is the label built at that
\* residue together with that residue's volume.
C16_LabelsVolumeAbove100 ==
    Labelled =>
        /\ \A r \in 1..Len(s_t4l) :
              (\E k \in 1..Len(s_SLs) : s_SLs[k].key = s_t4l[r].resnum)
                  <=> s_t4l[r].vol > 100
        /\ \A k \in 1..Len(s_SLs) :
              /\ \A j \in 1..Len(s_SLs) : s_SLs[j].key = s_SLs[k].key => j = k
              /\ \E r \in 1..Len(s_t4l) :
                    /\ s_SLs[k].key = s_t4l[r].resnum
                    /\ s_SLs[k].SL.site = s_t4l[r].resnum
                    /\ s_SLs[k].SL.spin_centroid = s_t4l[r].spin_centroid
                    /\ s_SLs[k].vol = s_t4l[r].vol

C16_Witness ==
    /\ s_pc = "score"
    /\ Len(s_t4l) = 3
    /\ s_t4l[1].vol = 125
    /\ s_t4l[2].vol = 100
    /\ s_t4l[3].vol = 216
    /\ Len(s_SLs) = 2
    /\ s_SLs[2].key = 3

C17_State ==
    (Labelled /\ AdmissiblePairs = {}) =>
        /\ s_pairs = <<>>
        /\ s_scores = <<>>
        /\ s_best = <<>>
        /\ s_pc \notin {"plot", "done"}
        /\ s_out \in {NoCall, Raised("ValueError")}
        /\ s_pc = "raised" <=> s_out = Raised("ValueError")

C17_Step ==
    (s_pc = "select" /\ AdmissiblePairs = {}) =>
        /\ s_pc' = "raised"
        /\ s_out' = Raised("ValueError")
        /\ s_best' = <<>>

\* C17: when no pair is admissible (fewer than two residues pass the
\* volume filter, or every pair of labels is closer than 25), pairs and
\* scores stay empty, the selection ends with the ValueError of np.argmin
\* instead of a pair, and the distance distribution and the save are not
\* reached.
C17_NoPairNoSelection == []C17_State /\ [][C17_Step]_vars

C17_Witness ==
    /\ s_pc = "raised"
    /\ s_out = Raised("ValueError")
    /\ Len(s_SLs) = 3
    /\ s_SLs[1].SL.spin_centroid # s_SLs[2].SL.spin_centroid

====
